---- MODULE Spec2Model ----
(***************************************************************************)
(* Workout Tracker PWA: the application state of app.js (data,             *)
(* currentSession, the localStorage document, the view on screen, pending  *)
(* rest timers) and its event handlers, one action per handler.            *)
(*                                                                         *)
(* Conventions for JavaScript values:                                      *)
(*   - a nullable number is a tuple: <<>> is null, <<v>> the number v,     *)
(*     NaN a two-element tuple (distinct from every number and from null); *)
(*   - integers (reps, plannedReps, restSec) are stored as themselves;     *)
(*     load and rpe are rationals with denominator 2 and are stored as     *)
(*     their number of halves (load 2.5 is <<5>>);                         *)
(*   - a string that the code parses or compares (a timestamp, an          *)
(*     exercise name) is a tuple of one-character strings;                 *)
(*   - a JS object used as a mapping (exercises, workouts) is the sequence *)
(*     of its entries in insertion order, as Object.entries yields them.   *)
(*                                                                         *)
(* Left out: the templates view and the export button (they read or write  *)
(* none of the state above), the Notification API, and the gap between     *)
(* choosing a file and reader.onload (Import is the onload handler).       *)
(* Arithmetic is exact; the rounding of IEEE doubles is not modelled.      *)
(***************************************************************************)
EXTENDS Integers, Sequences, FiniteSets, TLC

VARIABLES
    pc,              \* "boot" before DOMContentLoaded, "run" after init, "dead" when init threw
    store,           \* localStorage item 'workoutData'
    data,            \* the global `data`
    currentSession,  \* the global `currentSession` (NoSession is null)
    orphan,          \* the session whose rows are still on screen after currentSession was nulled
    view,            \* which view showView put in the app container
    timers,          \* number of pending setTimeout callbacks of startRestTimer
    now,             \* the clock read by new Date()
    nextOid,         \* identity of the next session object created
    cancelled,       \* identities of the session objects discarded by cancel
    raised,          \* whether the last handler ended with an uncaught exception
    alertMsg,        \* what the last handler passed to alert(), "none" if nothing
    edits,           \* number of input and change events on set rows so far
    shown            \* what the last rendered home/history/detail view computed

vars == <<pc, store, data, currentSession, orphan, view, timers, now, nextOid,
          cancelled, raised, alertMsg, edits, shown>>

----------------------------------------------------------------------------
(* Bounds of the model *)

MaxClock == 1      \* the clock takes the readings 0..MaxClock
MaxSessions == 2   \* session objects created by startNewSession
MaxSets == 2       \* sets in one session
MaxEdits == 1      \* input and change events on set rows
MaxTimers == 1     \* rest timers pending at once
MaxStamp == 6      \* the stored workouts of the query runs start at readings 0..MaxStamp
MaxShownSets == 2  \* sets of the stored workout of the metric runs

(* Program constants *)

DefaultRest == 60  \* restSec of the first set of an exercise
RecentCount == 5   \* the dashboard's slice(0, 5)

----------------------------------------------------------------------------
(* JavaScript values *)

Null == <<>>
NaN == <<0, 0>>
Num(v) == <<v>>
IsNum(x) == Len(x) = 1

\* JS truthiness of a nullable number: null, NaN and 0 are falsy.
Truthy(x) == IsNum(x) /\ x[1] /= 0

\* `x || d`
OrElse(x, d) == IF Truthy(x) THEN x ELSE d

\* The text of an <input type="number">: non-numeric (empty, "abc"), or a decimal
\* numeral sign whole[.5].
NonNumeric == [num |-> FALSE, neg |-> FALSE, whole |-> 0, half |-> FALSE]
Numeral(neg, whole, half) == [num |-> TRUE, neg |-> neg, whole |-> whole, half |-> half]

\* parseInt(text): the integer part, truncated toward zero; NaN when non-numeric.
ParseInt(t) ==
    IF ~t.num THEN NaN
    ELSE Num(IF t.neg THEN 0 - t.whole ELSE t.whole)

\* parseFloat(text), in halves; NaN when non-numeric.
ParseFloat(t) ==
    IF ~t.num THEN NaN
    ELSE LET h == 2 * t.whole + (IF t.half THEN 1 ELSE 0)
         IN  Num(IF t.neg THEN 0 - h ELSE h)

----------------------------------------------------------------------------
(* Strings *)

Digits == <<"0", "1", "2", "3", "4", "5", "6", "7", "8", "9">>
DigitOf(n) == Digits[n + 1]
ValueOf(c) == CHOOSE n \in 0..9 : Digits[n + 1] = c

\* UTF-16 code unit of the characters timestamps are made of.
CharCode(c) == IF c = "." THEN 46 ELSE IF c = "Z" THEN 90 ELSE 48 + ValueOf(c)

\* a < b in JavaScript's string order (code unit by code unit, a proper prefix first).
RECURSIVE LexLess(_, _)
LexLess(a, b) ==
    IF b = <<>> THEN FALSE
    ELSE IF a = <<>> THEN TRUE
    ELSE IF CharCode(Head(a)) /= CharCode(Head(b)) THEN CharCode(Head(a)) < CharCode(Head(b))
    ELSE LexLess(Tail(a), Tail(b))

\* new Date(t).toISOString(). A clock reading t stands for t tenths of a second; the
\* text <<s, ".", f, "Z">> stands for "1970-01-01T00:00:0s.f00Z" (the fixed date
\* and the trailing zeros are the same in every timestamp and are left out).
ToISOString(t) == <<DigitOf(t \div 10), ".", DigitOf(t % 10), "Z">>

\* new Date(text).getTime() for the two ISO-8601 forms of a timestamp: with a
\* fraction, <<s, ".", f, "Z">>, and without, <<s, "Z">> ("...T00:00:0sZ").
DateParse(s) ==
    IF Len(s) = 4 THEN 10 * ValueOf(s[1]) + ValueOf(s[3]) ELSE 10 * ValueOf(s[1])

\* String.prototype.toLowerCase on the letters exercise names are made of.
LowerChar(c) == IF c = "S" THEN "s" ELSE IF c = "Q" THEN "q" ELSE c

IsSpace(c) == c = " "

\* exName.toLowerCase().replace(/\s+/g, '-'): every run of whitespace becomes one "-".
RECURSIVE ToId(_)
ToId(name) ==
    IF name = <<>> THEN <<>>
    ELSE IF IsSpace(Head(name))
         THEN IF Tail(name) /= <<>> /\ IsSpace(Head(Tail(name)))
              THEN ToId(Tail(name))
              ELSE <<"-">> \o ToId(Tail(name))
         ELSE <<LowerChar(Head(name))>> \o ToId(Tail(name))

----------------------------------------------------------------------------
(* Objects used as mappings: sequences of entries [k, v] in insertion order *)

Keys(m) == {m[i].k : i \in 1..Len(m)}
HasKey(m, k) == k \in Keys(m)
IndexOf(m, k) == CHOOSE i \in 1..Len(m) : m[i].k = k
Get(m, k) == m[IndexOf(m, k)].v

\* m[k] = v: an existing key keeps its place, a new key goes last.
Put(m, k, v) ==
    IF HasKey(m, k) THEN [m EXCEPT ![IndexOf(m, k)] = [k |-> k, v |-> v]]
    ELSE Append(m, [k |-> k, v |-> v])

----------------------------------------------------------------------------
(* The data model (file header, lines 9-35) *)

profileId == "me"

\* { exercises: {}, workouts: {} }; hasEx/hasWo say whether the object has the key.
EmptyProfile == [hasEx |-> TRUE, exercises |-> <<>>, hasWo |-> TRUE, workouts |-> <<>>]

\* { profiles: {} }
EmptyRoot == [hasProfiles |-> TRUE, profiles |-> <<>>]

\* A session object. oid is the identity of the JS object (0 for an object that came
\* out of JSON.parse); endedAt is <<>> while null.
NewSession(oid, startedAt) ==
    [oid |-> oid, startedAt |-> startedAt, endedAt |-> <<>>, notes |-> "",
     unit |-> "kg", sets |-> <<>>]

\* data.profiles[profileId]: <<>> for null/undefined, <<p>> for an object p.
Me(d) ==
    IF d = Null \/ ~d[1].hasProfiles \/ ~HasKey(d[1].profiles, profileId) THEN Null
    ELSE Get(d[1].profiles, profileId)

WithMe(d, p) == <<[d[1] EXCEPT !.profiles = Put(@, profileId, p)]>>

\* Reading data.profiles[profileId].workouts / .exercises and then using the result
\* as an object throws a TypeError unless the profile is an object holding that key.
CanReadWorkouts(d) == Me(d) /= Null /\ Me(d)[1].hasWo
CanReadExercises(d) == Me(d) /= Null /\ Me(d)[1].hasEx

Workouts(d) == Me(d)[1].workouts
Exercises(d) == Me(d)[1].exercises

----------------------------------------------------------------------------
(* Metrics and queries of the views *)

\* VolumeStep with `=` for `+`: the running sum is dropped.
VolumeStep_NoSum(sum, s) ==
    IF Truthy(s.reps) /\ Truthy(s.load) THEN s.reps[1] * s.load[1] ELSE 0

\* (sum, s) => sum + (s.reps && s.load ? s.reps * s.load : 0), in halves
VolumeStep(sum, s) ==
    sum + (IF Truthy(s.reps) /\ Truthy(s.load) THEN s.reps[1] * s.load[1] ELSE 0)

\* sets.reduce(VolumeStep, 0): a left fold from index i on
RECURSIVE Reduce(_, _, _)
Reduce(sets, i, sum) ==
    IF i > Len(sets) THEN sum ELSE Reduce(sets, i + 1, VolumeStep(sum, sets[i]))

Volume(sets) == Reduce(sets, 1, 0)

\* s => s.reps && s.load ? s.load * (1 + s.reps / 30) : null. The quotient is kept
\* exact: the result <<n>> stands for n/30 halves, n = load * (30 + reps).
E1rm(s) ==
    IF Truthy(s.reps) /\ Truthy(s.load) THEN Num(s.load[1] * (30 + s.reps[1])) ELSE Null

\* s => s.reps && s.load ? s.reps * s.load : 0
ChartVolume(s) == IF Truthy(s.reps) /\ Truthy(s.load) THEN s.reps[1] * s.load[1] ELSE 0

\* KeepsBefore with a and b swapped in the comparator: oldest first.
KeepsBefore_Ascending(a, b) == DateParse(a.k) - DateParse(b.k) <= 0

\* (a, b) => new Date(b[0]) - new Date(a[0]) <= 0: a stays before b
KeepsBefore(a, b) == DateParse(b.k) - DateParse(a.k) <= 0

\* Array.prototype.sort with that comparator. The sort is stable: an entry goes
\* behind every entry it does not have to precede.
RECURSIVE InsertSorted(_, _)
InsertSorted(sorted, e) ==
    IF sorted = <<>> THEN <<e>>
    ELSE IF KeepsBefore(Head(sorted), e) THEN <<Head(sorted)>> \o InsertSorted(Tail(sorted), e)
    ELSE <<e>> \o sorted

RECURSIVE SortFrom(_, _, _)
SortFrom(m, i, acc) ==
    IF i > Len(m) THEN acc ELSE SortFrom(m, i + 1, InsertSorted(acc, m[i]))

SortByDateDesc(m) == SortFrom(m, 1, <<>>)

\* .slice(0, n)
Slice(s, n) == SubSeq(s, 1, IF n < Len(s) THEN n ELSE Len(s))

\* createHistoryView: every workout, newest first
ListAll(workouts) == SortByDateDesc(workouts)

\* createHomeView: the n newest workouts
ListRecent(workouts, n) == Slice(SortByDateDesc(workouts), n)

\* data.profiles[profileId].exercises[s.ex]?.name || s.ex
DisplayName(exercises, ex) == IF HasKey(exercises, ex) THEN Get(exercises, ex).name ELSE ex

\* byExercise of showWorkoutDetail: the sets of each display name, names in the
\* order of first appearance.
RECURSIVE GroupFrom(_, _, _, _)
GroupFrom(exercises, sets, i, groups) ==
    IF i > Len(sets) THEN groups
    ELSE LET nm == DisplayName(exercises, sets[i].ex)
             old == IF HasKey(groups, nm) THEN Get(groups, nm) ELSE <<>>
         IN  GroupFrom(exercises, sets, i + 1, Put(groups, nm, Append(old, sets[i])))

ByExercise(exercises, sets) == GroupFrom(exercises, sets, 1, <<>>)

\* The datasets handed to Chart for one group.
Chart(g) ==
    [name |-> g.k,
     sets |-> g.v,
     volumes |-> [i \in 1..Len(g.v) |-> ChartVolume(g.v[i])],
     e1rms |-> [i \in 1..Len(g.v) |-> E1rm(g.v[i])]]

NothingShown == [list |-> <<>>, volumes |-> <<>>, charts |-> <<>>]

\* What createHomeView puts on screen: the recent workouts' keys.
HomeShown(d) ==
    LET ws == ListRecent(Workouts(d), RecentCount)
    IN  [list |-> [i \in 1..Len(ws) |-> ws[i].k], volumes |-> <<>>, charts |-> <<>>]

\* What createHistoryView puts on screen: one row per workout with its volume.
HistoryShown(d) ==
    LET ws == ListAll(Workouts(d))
    IN  [list |-> [i \in 1..Len(ws) |-> ws[i].k],
         volumes |-> [i \in 1..Len(ws) |-> Volume(ws[i].v.sets)],
         charts |-> <<>>]

\* What showWorkoutDetail(id) puts on screen: the summary volume and the charts.
DetailShown(d, id) ==
    LET w == Get(Workouts(d), id)
        gs == ByExercise(Exercises(d), w.sets)
    IN  [list |-> <<id>>,
         volumes |-> <<Volume(w.sets)>>,
         charts |-> [i \in 1..Len(gs) |-> Chart(gs[i])]]

----------------------------------------------------------------------------
(* Persistence *)

Missing == [k |-> "missing", v |-> <<>>]     \* no item under 'workoutData'
Garbage == [k |-> "garbage", v |-> <<>>]     \* text JSON.parse rejects
Json(v) == [k |-> "json", v |-> v]           \* the text of the JSON value v (<<>> is null)

\* JSON.stringify of a workout: the text holds its fields, not the object's identity.
PlainEntry(e) == [k |-> e.k, v |-> [e.v EXCEPT !.oid = 0]]
PlainProfile(p) ==
    IF p = Null THEN Null
    ELSE <<[p[1] EXCEPT !.workouts = [i \in 1..Len(@) |-> PlainEntry(@[i])]]>>
PlainRoot(d) ==
    IF d = Null THEN Null
    ELSE <<[d[1] EXCEPT !.profiles = [i \in 1..Len(@) |-> [k |-> @[i].k, v |-> PlainProfile(@[i].v)]]]>>

\* saveData: localStorage.setItem('workoutData', JSON.stringify(data))
SaveData(d) == Json(PlainRoot(d))

\* loadData, from data = null: the value of `data` afterwards, and whether it returned
\* (ok) or threw at `data.profiles[profileId]`.
LoadData(st) ==
    LET parsed == IF st.k = "json" THEN st.v ELSE Null
        d == IF parsed = Null THEN <<EmptyRoot>> ELSE parsed
    IN  IF ~d[1].hasProfiles THEN [data |-> d, ok |-> FALSE]
        ELSE IF Me(d) = Null THEN [data |-> WithMe(d, <<EmptyProfile>>), ok |-> TRUE]
        ELSE [data |-> d, ok |-> TRUE]

----------------------------------------------------------------------------
(* Session operations *)

IntFields == {"plannedReps", "reps", "restSec"}
FloatFields == {"load", "rpe"}
Fields == IntFields \cup FloatFields

\* The input handlers of createSetRow: parseInt(value) || null, parseFloat(value) || null
Coerce(field, text) ==
    IF field \in IntFields THEN OrElse(ParseInt(text), Null) ELSE OrElse(ParseFloat(text), Null)

SetField(set, field, text) == [set EXCEPT ![field] = Coerce(field, text)]

\* currentSession.sets.filter(s => s.ex === exId)
RECURSIVE FilterEx(_, _)
FilterEx(sets, exId) ==
    IF sets = <<>> THEN <<>>
    ELSE IF Head(sets).ex = exId THEN <<Head(sets)>> \o FilterEx(Tail(sets), exId)
    ELSE FilterEx(Tail(sets), exId)

\* `last.f || d`, where last is exSets[exSets.length - 1] || {}
Inherit(exSets, f, d) ==
    IF exSets = <<>> THEN d ELSE OrElse(exSets[Len(exSets)][f], d)

\* A newSet numbered by the count of all sets of the session, whatever their exercise.
NewSet_CountsAll(sets, exId) ==
    LET exSets == FilterEx(sets, exId)
    IN  [ex |-> exId,
         set |-> Len(sets) + 1,
         plannedReps |-> Inherit(exSets, "plannedReps", Null),
         reps |-> Null,
         load |-> Inherit(exSets, "load", Null),
         rpe |-> Null,
         restSec |-> Inherit(exSets, "restSec", Num(DefaultRest)),
         done |-> FALSE]

\* newSet of addSetToExercise
NewSet(sets, exId) ==
    LET exSets == FilterEx(sets, exId)
    IN  [ex |-> exId,
         set |-> Len(exSets) + 1,
         plannedReps |-> Inherit(exSets, "plannedReps", Null),
         reps |-> Null,
         load |-> Inherit(exSets, "load", Null),
         rpe |-> Null,
         restSec |-> Inherit(exSets, "restSec", Num(DefaultRest)),
         done |-> FALSE]

\* currentSession.sets.push(newSet)
PushSet(sess, exId) == [sess EXCEPT !.sets = Append(@, NewSet(@, exId))]

\* data.profiles[profileId].exercises[id] = { name: exName, tags: [] } when unknown
Register(d, id, name) ==
    IF HasKey(Exercises(d), id) THEN d
    ELSE WithMe(d, <<[Me(d)[1] EXCEPT !.exercises = Put(@, id, [name |-> name])]>>)

\* finishSession, lines 393-395: the session stamped and keyed into the workouts
Stamp(sess, t) == [sess EXCEPT !.endedAt = ToISOString(t)]
Commit(d, sess) ==
    WithMe(d, <<[Me(d)[1] EXCEPT !.workouts = Put(@, sess.startedAt, sess)]>>)

----------------------------------------------------------------------------
(* Inputs *)

\* What the user types into a set row: "" or "abc", "0", "2.5", "-1", "11".
Texts ==
    {NonNumeric, Numeral(FALSE, 0, FALSE), Numeral(FALSE, 2, TRUE),
     Numeral(TRUE, 1, FALSE), Numeral(FALSE, 11, FALSE)}

\* What the user answers to the prompt: nothing, "SQ", "sq", "b  p".
ExNames == {<<>>, <<"S", "Q">>, <<"s", "q">>, <<"b", " ", " ", "p">>}

Units == {"kg", "lb"}

----------------------------------------------------------------------------
(* Event handlers *)

\* What a handler leaves behind for the observer: whether it threw, and what it
\* passed to alert().
Done(threw, msg) == raised' = threw /\ alertMsg' = msg

\* The session whose rows are on screen in the session view.
OnScreen == IF currentSession /= Null THEN currentSession ELSE orphan

\* init (DOMContentLoaded): loadData(), then showView(createHomeView()), then the
\* navigation listeners. An exception in either call ends init: no listener is attached.
Boot ==
    /\ pc = "boot"
    /\ LET r == LoadData(store)
       IN  /\ data' = r.data
           /\ IF ~r.ok
              THEN pc' = "loadFailed" /\ UNCHANGED <<view, shown>>
              ELSE IF ~CanReadWorkouts(r.data)
                   THEN pc' = "renderFailed" /\ UNCHANGED <<view, shown>>
                   ELSE pc' = "run" /\ view' = "home" /\ shown' = HomeShown(r.data)
           /\ Done(~r.ok \/ ~CanReadWorkouts(r.data), "none")
    /\ UNCHANGED <<edits, store, currentSession, orphan, timers, now, nextOid, cancelled>>

\* navHome click: showView(createHomeView())
NavHome ==
    /\ pc = "run"
    /\ IF CanReadWorkouts(data)
       THEN view' = "home" /\ shown' = HomeShown(data) /\ orphan' = Null
       ELSE UNCHANGED <<view, shown, orphan>>
    /\ Done(~CanReadWorkouts(data), "none")
    /\ UNCHANGED <<edits, pc, store, data, currentSession, timers, now, nextOid, cancelled>>

\* navHistory click, and the detail view's back button: showView(createHistoryView())
NavHistory ==
    /\ pc = "run"
    /\ IF CanReadWorkouts(data)
       THEN view' = "history" /\ shown' = HistoryShown(data) /\ orphan' = Null
       ELSE UNCHANGED <<view, shown, orphan>>
    /\ Done(~CanReadWorkouts(data), "none")
    /\ UNCHANGED <<edits, pc, store, data, currentSession, timers, now, nextOid, cancelled>>

\* navSettings click: showView(createSettingsView())
NavSettings ==
    /\ pc = "run"
    /\ view' = "settings" /\ shown' = NothingShown /\ orphan' = Null
    /\ Done(FALSE, "none")
    /\ UNCHANGED <<edits, pc, store, data, currentSession, timers, now, nextOid, cancelled>>

\* click on a workout of the home or history list: showWorkoutDetail(id). It throws at
\* `exercises[s.ex]` for the first set when the profile holds no exercises mapping.
ShowDetail(id) ==
    /\ pc = "run"
    /\ view \in {"home", "history"}
    /\ id \in {shown.list[i] : i \in 1..Len(shown.list)}
    /\ LET threw == Get(Workouts(data), id).sets /= <<>> /\ ~CanReadExercises(data)
       IN  /\ IF threw
              THEN UNCHANGED <<view, shown>>
              ELSE view' = "detail" /\ shown' = DetailShown(data, id)
           /\ Done(threw, "none")
    /\ UNCHANGED <<edits, pc, store, data, currentSession, orphan, timers, now, nextOid, cancelled>>

\* navNewSession click (any view) and the dashboard's Start Session button:
\* startNewSession()
StartNewSession ==
    /\ pc = "run"
    /\ nextOid <= MaxSessions
    /\ currentSession' = <<NewSession(nextOid, ToISOString(now))>>
    /\ nextOid' = nextOid + 1
    /\ view' = "session" /\ shown' = NothingShown /\ orphan' = Null
    /\ Done(FALSE, "none")
    /\ UNCHANGED <<edits, pc, store, data, timers, now, cancelled>>

\* change of the unit select: currentSession.unit = selectUnit.value
UnitChange(u) ==
    /\ pc = "run"
    /\ view = "session"
    /\ IF currentSession = Null
       THEN UNCHANGED currentSession
       ELSE /\ u /= currentSession[1].unit
            /\ currentSession' = <<[currentSession[1] EXCEPT !.unit = u]>>
    /\ Done(currentSession = Null, "none")
    /\ UNCHANGED <<edits, pc, store, data, orphan, view, timers, now, nextOid, cancelled, shown>>

\* Add Exercise click: addExerciseFlow(), with what the prompt returned
AddExercise(exName) ==
    /\ pc = "run"
    /\ view = "session"
    /\ IF exName = <<>>
       THEN /\ UNCHANGED <<data, store, currentSession>>
            /\ Done(FALSE, "none")
       ELSE IF ~CanReadExercises(data)
       THEN /\ UNCHANGED <<data, store, currentSession>>
            /\ Done(TRUE, "none")
       ELSE /\ data' = Register(data, ToId(exName), exName)
            /\ store' = IF HasKey(Exercises(data), ToId(exName)) THEN store ELSE SaveData(data')
            /\ IF currentSession = Null
               THEN UNCHANGED currentSession
               ELSE /\ Len(currentSession[1].sets) < MaxSets
                    /\ currentSession' = <<PushSet(currentSession[1], ToId(exName))>>
            /\ Done(currentSession = Null, "none")
    /\ UNCHANGED <<edits, pc, orphan, view, timers, now, nextOid, cancelled, shown>>

\* "+ Set" click under an exercise group on screen: addSetToExercise(exId)
AddSet(exId) ==
    /\ pc = "run"
    /\ view = "session"
    /\ OnScreen /= Null
    /\ exId \in {OnScreen[1].sets[i].ex : i \in 1..Len(OnScreen[1].sets)}
    /\ IF currentSession = Null
       THEN UNCHANGED currentSession
       ELSE /\ Len(currentSession[1].sets) < MaxSets
            /\ currentSession' = <<PushSet(currentSession[1], exId)>>
    /\ Done(currentSession = Null, "none")
    /\ UNCHANGED <<edits, pc, store, data, orphan, view, timers, now, nextOid, cancelled, shown>>

\* The session on screen with its i-th set replaced.
WithSet(i, set) ==
    /\ IF currentSession /= Null
       THEN currentSession' = <<[currentSession[1] EXCEPT !.sets[i] = set]>> /\ UNCHANGED orphan
       ELSE orphan' = <<[orphan[1] EXCEPT !.sets[i] = set]>> /\ UNCHANGED currentSession

\* input event on one of the five number inputs of set row i
UpdateSetField(i, field, text) ==
    /\ pc = "run"
    /\ view = "session"
    /\ OnScreen /= Null
    /\ i \in 1..Len(OnScreen[1].sets)
    /\ edits < MaxEdits
    /\ edits' = edits + 1
    /\ WithSet(i, SetField(OnScreen[1].sets[i], field, text))
    /\ Done(FALSE, "none")
    /\ UNCHANGED <<pc, store, data, view, timers, now, nextOid, cancelled, shown>>

\* startRestTimer(set): 0 when it returns early, 1 when it schedules the callback
Scheduled(set) == IF Truthy(set.restSec) THEN 1 ELSE 0

\* startRestTimer throws at `.exercises[set.ex].name` when the set's exercise is unknown
TimerThrows(d, set) ==
    Truthy(set.restSec) /\ (~CanReadExercises(d) \/ ~HasKey(Exercises(d), set.ex))

\* change event of the done checkbox of set row i
MarkDone(i) ==
    /\ pc = "run"
    /\ view = "session"
    /\ OnScreen /= Null
    /\ i \in 1..Len(OnScreen[1].sets)
    /\ edits < MaxEdits
    /\ edits' = edits + 1
    /\ LET set == OnScreen[1].sets[i]
           threw == ~set.done /\ TimerThrows(data, set)
           more == IF set.done \/ threw THEN 0 ELSE Scheduled(set)
       IN  /\ WithSet(i, [set EXCEPT !.done = ~set.done])
           /\ timers + more <= MaxTimers
           /\ timers' = timers + more
           /\ Done(threw, "none")
    /\ UNCHANGED <<pc, store, data, view, now, nextOid, cancelled, shown>>

\* A callback that also ends the session: currentSession = null.
RestTimerFires_EndsSession ==
    /\ timers > 0
    /\ timers' = timers - 1
    /\ currentSession' = Null
    /\ Done(FALSE, "rest")
    /\ UNCHANGED <<edits, pc, store, data, orphan, view, now, nextOid, cancelled, shown>>

\* The setTimeout callback of startRestTimer: alert(...)
RestTimerFires ==
    /\ timers > 0
    /\ timers' = timers - 1
    /\ Done(FALSE, "rest")
    /\ UNCHANGED <<edits, pc, store, data, currentSession, orphan, view, now, nextOid, cancelled, shown>>

\* A finish that commits the session and does not call saveData().
FinishSession_NoSave ==
    /\ pc = "run"
    /\ view = "session"
    /\ currentSession /= Null
    /\ CanReadWorkouts(data)
    /\ data' = Commit(data, Stamp(currentSession[1], now))
    /\ currentSession' = Null
    /\ view' = "home" /\ shown' = HomeShown(data') /\ orphan' = Null
    /\ Done(FALSE, "none")
    /\ UNCHANGED <<edits, pc, store, timers, now, nextOid, cancelled>>

\* Finish & Save click: finishSession()
FinishSession ==
    /\ pc = "run"
    /\ view = "session"
    /\ IF currentSession = Null
       THEN /\ UNCHANGED <<data, store, currentSession, view, shown, orphan>>
            /\ Done(FALSE, "none")
       ELSE IF ~CanReadWorkouts(data)
       THEN /\ currentSession' = <<Stamp(currentSession[1], now)>>
            /\ UNCHANGED <<data, store, view, shown, orphan>>
            /\ Done(TRUE, "none")
       ELSE /\ data' = Commit(data, Stamp(currentSession[1], now))
            /\ store' = SaveData(data')
            /\ currentSession' = Null
            /\ view' = "home" /\ shown' = HomeShown(data') /\ orphan' = Null
            /\ Done(FALSE, "none")
    /\ UNCHANGED <<edits, pc, timers, now, nextOid, cancelled>>

\* Cancel that saves what it should discard: the handler of Finish & Save.
Cancel_Commits ==
    /\ pc = "run"
    /\ view = "session"
    /\ currentSession /= Null
    /\ CanReadWorkouts(data)
    /\ data' = Commit(data, Stamp(currentSession[1], now))
    /\ store' = SaveData(data')
    /\ currentSession' = Null
    /\ cancelled' = cancelled \cup {currentSession[1].oid}
    /\ view' = "home" /\ shown' = HomeShown(data') /\ orphan' = Null
    /\ Done(FALSE, "none")
    /\ UNCHANGED <<edits, pc, timers, now, nextOid>>

\* Cancel click: currentSession = null; showView(createHomeView())
Cancel ==
    /\ pc = "run"
    /\ view = "session"
    /\ currentSession' = Null
    /\ cancelled' = IF currentSession = Null THEN cancelled
                    ELSE cancelled \cup {currentSession[1].oid}
    /\ IF CanReadWorkouts(data)
       THEN view' = "home" /\ shown' = HomeShown(data) /\ orphan' = Null
       ELSE orphan' = OnScreen /\ UNCHANGED <<view, shown>>
    /\ Done(~CanReadWorkouts(data), "none")
    /\ UNCHANGED <<edits, pc, store, data, timers, now, nextOid>>

\* reader.onload of the import input, with the text of the chosen file
Import(file) ==
    /\ pc = "run"
    /\ view = "settings"
    /\ IF file.k = "json"
       THEN /\ data' = WithMe(data, file.v)
            /\ store' = SaveData(data')
            /\ Done(FALSE, "imported")
       ELSE /\ UNCHANGED <<data, store>>
            /\ Done(FALSE, "failed")
    /\ UNCHANGED <<edits, pc, currentSession, orphan, view, timers, now, nextOid, cancelled, shown>>

\* Time passes between two handlers.
Tick ==
    /\ now < MaxClock
    /\ now' = now + 1
    /\ UNCHANGED <<raised, alertMsg, edits, pc, store, data, currentSession, orphan, view, timers, nextOid,
                   cancelled, shown>>

----------------------------------------------------------------------------
(* Documents: stored under 'workoutData', or chosen for import *)

sq == <<"s", "q">>
bp == <<"b", "-", "p">>

\* A set as a finished workout holds it.
StoredSet(ex, n, reps, load) ==
    [ex |-> ex, set |-> n, plannedReps |-> Null, reps |-> reps, load |-> load,
     rpe |-> Null, restSec |-> Num(DefaultRest), done |-> TRUE]

\* A workout as JSON.parse yields it, keyed by its start timestamp.
StoredWorkout(key, sets) ==
    [k |-> key,
     v |-> [oid |-> 0, startedAt |-> key, endedAt |-> key, notes |-> "", unit |-> "kg",
            sets |-> sets]]

\* The timestamp form of the file header's example, "2025-09-14T06:00:00Z": no fraction.
ShortStamp == <<"0", "Z">>

Library == <<[k |-> sq, v |-> [name |-> <<"S", "Q">>]]>>

\* An exported profile: one exercise, one workout of one set (0 reps at load 80).
GoodProfile ==
    [hasEx |-> TRUE, exercises |-> Library, hasWo |-> TRUE,
     workouts |-> <<StoredWorkout(ShortStamp, <<StoredSet(sq, 1, Num(0), Num(160))>>)>>]

\* Documents that parse but lack one of the two mappings.
NoWorkoutsProfile == [hasEx |-> TRUE, exercises |-> <<>>, hasWo |-> FALSE, workouts |-> <<>>]
NoExercisesProfile == [hasEx |-> FALSE, exercises |-> <<>>, hasWo |-> TRUE, workouts |-> <<>>]

\* A document with both mappings whose workout has no endedAt (`"endedAt": null`).
OpenWorkoutProfile ==
    [hasEx |-> TRUE, exercises |-> Library, hasWo |-> TRUE,
     workouts |-> <<[StoredWorkout(ShortStamp, <<>>) EXCEPT !.v.endedAt = Null]>>]

IsWellFormed(p) == p /= Null /\ p[1].hasEx /\ p[1].hasWo

ImportFiles ==
    {Garbage, Json(<<GoodProfile>>), Json(<<NoWorkoutsProfile>>), Json(<<NoExercisesProfile>>),
     Json(<<OpenWorkoutProfile>>)}

RootOf(p) == <<[hasProfiles |-> TRUE, profiles |-> <<[k |-> profileId, v |-> p]>>]>>

\* What localStorage holds at a first start: nothing. Start-up over stored documents,
\* well-formed or not, is SpecLoad.
InitialStores == {Missing}

----------------------------------------------------------------------------
(* The application *)

Init ==
    /\ pc = "boot"
    /\ store \in InitialStores
    /\ data = Null
    /\ currentSession = Null
    /\ orphan = Null
    /\ view = "none"
    /\ timers = 0
    /\ now = 0
    /\ nextOid = 1
    /\ cancelled = {}
    /\ raised = FALSE
    /\ alertMsg = "none"
    /\ edits = 0
    /\ shown = NothingShown

Next ==
    \/ Boot
    \/ NavHome
    \/ NavSettings
    \/ StartNewSession
    \/ \E u \in Units : UnitChange(u)
    \/ \E n \in {<<>>, <<"S", "Q">>, <<"b", " ", " ", "p">>} : AddExercise(n)
    \/ \E e \in {sq, bp} : AddSet(e)
    \/ \E i \in 1..MaxSets, f \in {"reps", "restSec"}, t \in {NonNumeric, Numeral(FALSE, 2, TRUE)} :
            UpdateSetField(i, f, t)
    \/ \E i \in 1..MaxSets : MarkDone(i)
    \/ RestTimerFires
    \/ FinishSession
    \/ Cancel
    \/ \E file \in ImportFiles : Import(file)
    \/ Tick

Spec == Init /\ [][Next]_vars

----------------------------------------------------------------------------
(* The history and detail views over stored profiles *)

\* Every start timestamp a stored workout may have: the readings 0..MaxStamp as
\* toISOString writes them, and one timestamp without a fraction.
AllStamps == <<ShortStamp>> \o [i \in 1..(MaxStamp + 1) |-> ToISOString(i - 1)]

Reverse(s) == [i \in 1..Len(s) |-> s[Len(s) + 1 - i]]
OddsThenEvens(s) ==
    SelectSeq([i \in 1..Len(s) |-> IF i % 2 = 1 THEN s[i] ELSE <<>>], LAMBDA k : k /= <<>>)
    \o SelectSeq([i \in 1..Len(s) |-> IF i % 2 = 0 THEN s[i] ELSE <<>>], LAMBDA k : k /= <<>>)

\* Orders in which the workouts may have been inserted into the mapping.
InsertionOrders == {AllStamps, Reverse(AllStamps), OddsThenEvens(AllStamps)}

\* Profiles of workouts without sets: any subset of the timestamps, in any of the orders.
StampProfiles ==
    {[hasEx |-> TRUE, exercises |-> Library, hasWo |-> TRUE,
      workouts |-> LET ks == SelectSeq(order, LAMBDA k : k \in chosen)
                   IN  [i \in 1..Len(ks) |-> StoredWorkout(ks[i], <<>>)]] :
        chosen \in SUBSET {AllStamps[i] : i \in 1..Len(AllStamps)}, order \in InsertionOrders}

\* The reps and loads (in halves) a stored set may hold.
ShownReps == {Null, Num(0), Num(3)}
ShownLoads == {Null, Num(0), Num(5)}
ShownSets == {StoredSet(ex, 1, r, l) : ex \in {sq, bp}, r \in ShownReps, l \in ShownLoads}

\* set numbers as addSetToExercise hands them out: the count of the exercise so far
Numbered(sets) ==
    [i \in 1..Len(sets) |->
        [sets[i] EXCEPT !.set = Cardinality({j \in 1..i : sets[j].ex = sets[i].ex})]]

\* Profiles of one workout with up to MaxShownSets sets.
SetProfiles ==
    {[hasEx |-> TRUE, exercises |-> Library, hasWo |-> TRUE,
      workouts |-> <<StoredWorkout(ShortStamp, Numbered(sets))>>] :
        sets \in UNION {[1..n -> ShownSets] : n \in 0..MaxShownSets}}

InitView ==
    /\ pc = "run"
    /\ \E p \in StampProfiles \cup SetProfiles :
          /\ data = RootOf(<<p>>)
          /\ store = SaveData(data)
    /\ currentSession = Null
    /\ orphan = Null
    /\ view = "settings"
    /\ timers = 0
    /\ now = 0
    /\ nextOid = 1
    /\ cancelled = {}
    /\ raised = FALSE
    /\ alertMsg = "none"
    /\ edits = 0
    /\ shown = NothingShown

NextView ==
    \/ NavHome
    \/ NavHistory
    \/ \E id \in Keys(Workouts(data)) : ShowDetail(id)

SpecView == InitView /\ [][NextView]_vars

----------------------------------------------------------------------------
(* Start-up over stored documents *)

NoProfilesRoot == [hasProfiles |-> FALSE, profiles |-> <<>>]

\* What may be found under 'workoutData': nothing, unparseable text, null, {},
\* { profiles: {} }, { profiles: { me: null } }, and roots holding a profile.
StoredDocs ==
    {Missing, Garbage, Json(Null), Json(<<NoProfilesRoot>>), Json(<<EmptyRoot>>),
     Json(RootOf(Null))}
    \cup {Json(RootOf(<<p>>)) : p \in StampProfiles \cup {NoWorkoutsProfile, NoExercisesProfile}}

InitLoad ==
    /\ pc = "boot"
    /\ store \in StoredDocs
    /\ data = Null
    /\ currentSession = Null
    /\ orphan = Null
    /\ view = "none"
    /\ timers = 0
    /\ now = 0
    /\ nextOid = 1
    /\ cancelled = {}
    /\ raised = FALSE
    /\ alertMsg = "none"
    /\ edits = 0
    /\ shown = NothingShown

SpecLoad == InitLoad /\ [][Boot]_vars

----------------------------------------------------------------------------
(* One session being edited *)

InitSession ==
    /\ pc = "run"
    /\ data = RootOf(<<EmptyProfile>>)
    /\ store = Missing
    /\ currentSession = <<NewSession(1, ToISOString(0))>>
    /\ orphan = Null
    /\ view = "session"
    /\ timers = 0
    /\ now = 0
    /\ nextOid = 2
    /\ cancelled = {}
    /\ raised = FALSE
    /\ alertMsg = "none"
    /\ edits = 0
    /\ shown = NothingShown

NextSession ==
    \/ \E u \in Units : UnitChange(u)
    \/ \E n \in ExNames : AddExercise(n)
    \/ \E e \in {sq, bp} : AddSet(e)
    \/ \E i \in 1..MaxSets, f \in Fields, t \in Texts : UpdateSetField(i, f, t)
    \/ \E i \in 1..MaxSets : MarkDone(i)
    \/ RestTimerFires

SpecSession == InitSession /\ [][NextSession]_vars

----------------------------------------------------------------------------
(* Properties of the history queries and metrics (SpecView) *)

Elems(s) == {s[i] : i \in 1..Len(s)}
Least(a, b) == IF a < b THEN a ELSE b

\* How many workouts the list on screen is cut to.
ListLimit == IF view = "home" THEN RecentCount ELSE Len(Workouts(data))

ListOnScreen == pc = "run" /\ view \in {"home", "history"}

\* C8, as stated: listRecent(profile, n) returns min(n, count) workouts, those with
\* the lexicographically greatest startedAt, in strictly descending lexicographic
\* order; listAll returns every workout in that order.
C8_LexicographicDescending ==
    ListOnScreen =>
        /\ Len(shown.list) = Least(ListLimit, Len(Workouts(data)))
        /\ Elems(shown.list) \subseteq Keys(Workouts(data))
        /\ \A i \in 1..(Len(shown.list) - 1) : LexLess(shown.list[i + 1], shown.list[i])
        /\ \A k \in Keys(Workouts(data)) \ Elems(shown.list) :
              \A i \in 1..Len(shown.list) : LexLess(k, shown.list[i])

IsoForm(k) == Len(k) = 4

\* C8, amended: the list holds min(n, count) distinct workouts, those with the
\* greatest start instants, latest instant first; when every key has the form
\* toISOString writes, that is the strictly descending lexicographic order.
C8_NewestFirst ==
    ListOnScreen =>
        /\ Len(shown.list) = Least(ListLimit, Len(Workouts(data)))
        /\ Elems(shown.list) \subseteq Keys(Workouts(data))
        /\ Cardinality(Elems(shown.list)) = Len(shown.list)
        /\ \A i \in 1..(Len(shown.list) - 1) :
              DateParse(shown.list[i + 1]) <= DateParse(shown.list[i])
        /\ \A k \in Keys(Workouts(data)) \ Elems(shown.list) :
              \A i \in 1..Len(shown.list) : DateParse(k) <= DateParse(shown.list[i])
        /\ (\A k \in Keys(Workouts(data)) : IsoForm(k)) => C8_LexicographicDescending

\* Seven workouts with toISOString keys, and the dashboard lists five of them.
C8_Witness ==
    /\ pc = "run" /\ view = "home"
    /\ Len(Workouts(data)) = 7
    /\ \A k \in Keys(Workouts(data)) : IsoForm(k)
    /\ Len(shown.list) = 5

\* setVolume of the specification: reps * load when both are present, else 0
SetVolume(s) == IF s.reps /= Null /\ s.load /= Null THEN s.reps[1] * s.load[1] ELSE 0

RECURSIVE SumSetVolume(_)
SumSetVolume(sets) ==
    IF sets = <<>> THEN 0 ELSE SetVolume(Head(sets)) + SumSetVolume(Tail(sets))

Permuted(sets, f) == [i \in 1..Len(sets) |-> sets[f[i]]]

\* C10: every volume on screen (a row of the history, the summary of the detail view)
\* is the sum of setVolume over the workout's sets, the computation gives the same
\* for every permutation of the sets, and a workout without sets has volume 0.
C10_VolumeIsSumOfSetVolumes ==
    (pc = "run" /\ view \in {"history", "detail"}) =>
        \A i \in 1..Len(shown.volumes) :
            LET sets == Get(Workouts(data), shown.list[i]).sets
            IN  /\ shown.volumes[i] = SumSetVolume(sets)
                /\ \A f \in Permutations(1..Len(sets)) :
                      Volume(Permuted(sets, f)) = shown.volumes[i]
                /\ sets = <<>> => shown.volumes[i] = 0

\* The history shows 15 halves for a workout of 3 reps at load 2.5 and a set without reps.
C10_Witness ==
    /\ pc = "run" /\ view = "history"
    /\ Len(shown.volumes) = 1
    /\ shown.volumes[1] = 15
    /\ \E i, j \in 1..Len(Workouts(data)[1].v.sets) :
          /\ Workouts(data)[1].v.sets[i].reps = Null
          /\ Workouts(data)[1].v.sets[j].reps = Num(3)

\* C9, as stated: a set with reps and load both present (0 included) gets
\* load * (1 + reps/30), and a set with either absent gets no value.
C9_E1rmWheneverBothPresent ==
    (pc = "run" /\ view = "detail") =>
        \A c \in 1..Len(shown.charts) :
            \A i \in 1..Len(shown.charts[c].sets) :
                LET s == shown.charts[c].sets[i]
                IN  shown.charts[c].e1rms[i] =
                        IF s.reps /= Null /\ s.load /= Null
                        THEN Num(s.load[1] * (30 + s.reps[1]))
                        ELSE Null

----------------------------------------------------------------------------
(* Properties of the session lifecycle (Spec) *)

\* Every workout of the mapping is keyed by its startedAt and has an endedAt.
WorkoutsKeyedAndEnded ==
    (pc = "run" /\ CanReadWorkouts(data)) =>
        \A i \in 1..Len(Workouts(data)) :
            /\ Workouts(data)[i].k = Workouts(data)[i].v.startedAt
            /\ Workouts(data)[i].v.endedAt /= Null

\* What finish has to do to an active session.
FinishStep ==
    (FinishSession /\ currentSession /= Null) =>
        /\ currentSession' = Null
        /\ CanReadWorkouts(data')
        /\ HasKey(Workouts(data'), currentSession[1].startedAt)
        /\ Get(Workouts(data'), currentSession[1].startedAt)
              = [currentSession[1] EXCEPT !.endedAt = ToISOString(now)]
        /\ store' = SaveData(data')

\* C1, as stated: finish on an active session stamps endedAt, stores the session under
\* its startedAt, writes the root to the store and leaves no active session; every
\* workout of the mapping has key = startedAt and an endedAt.
C1_FinishCommitsSession == [][FinishStep]_vars /\ []WorkoutsKeyedAndEnded

Malformed(file) == file.k = "json" /\ ~IsWellFormed(file.v)

\* C2, as stated: importing a document that parses but lacks the exercises or the
\* workouts mapping changes neither the profile in memory nor the stored document,
\* and a failure is reported, not a success.
C2_MalformedImportRejected ==
    [][\A file \in ImportFiles :
          (Import(file) /\ Malformed(file)) =>
              (data' = data /\ store' = store /\ alertMsg' = "failed")]_vars

\* C4, as stated: start runs only when no session is active.
C4_StartOnlyWhenIdle == [][StartNewSession => currentSession = Null]_vars

\* No workout of the mapping is a session object that cancel discarded.
NoCancelledCommitted ==
    (pc = "run" /\ CanReadWorkouts(data)) =>
        \A i \in 1..Len(Workouts(data)) : Workouts(data)[i].v.oid \notin cancelled

\* The workouts of the stored document, none when no document holds any.
StoredWorkouts ==
    IF store.k = "json" /\ CanReadWorkouts(store.v) THEN Workouts(store.v) ELSE <<>>

CancelStep ==
    (Cancel /\ currentSession /= Null) =>
        /\ currentSession' = Null
        /\ data' = data
        /\ store' = store

\* Only finish and import write the stored workouts, and finish adds the active session.
StoredWorkoutsStep ==
    StoredWorkouts' /= StoredWorkouts =>
        \/ \E file \in ImportFiles : Import(file)
        \/ FinishSession /\ currentSession /= Null
                         /\ currentSession[1].oid \notin cancelled

\* C5: cancel on an active session leaves no active session and changes neither the
\* workout mapping nor the stored document, and no later step puts a cancelled
\* session into the mapping or the stored workouts.
C5_CancelDiscards ==
    [][CancelStep]_vars /\ []NoCancelledCommitted /\ [][StoredWorkoutsStep]_vars

\* Session 1 had a set marked done and was cancelled, session 2 was finished and is
\* in the mapping, and the rest timer of session 1 has just fired.
C5_Witness ==
    /\ pc = "run"
    /\ cancelled = {1}
    /\ CanReadWorkouts(data)
    /\ \E i \in 1..Len(Workouts(data)) : Workouts(data)[i].v.oid = 2
    /\ alertMsg = "rest"

----------------------------------------------------------------------------
(* Properties of start-up (SpecLoad) *)

\* The stored content is missing or malformed: no text, unparseable text, or a value
\* that is no root object with a profiles mapping.
StoreUnusable == store.k /= "json" \/ store.v = Null \/ ~store.v[1].hasProfiles

\* C3, as stated: load never raises; on missing or malformed content it yields a fresh
\* root whose profile mapping holds only the empty active profile; in every case the
\* active profile is {exercises: {}, workouts: {}} or its stored value.
C3_LoadNeverFails ==
    pc /= "boot" =>
        /\ pc /= "loadFailed"
        /\ StoreUnusable => data = RootOf(<<EmptyProfile>>)
        /\ Me(data) /= Null
        /\ Me(data) = <<EmptyProfile>> \/ Me(data) = Me(store.v)

----------------------------------------------------------------------------
(* Properties of session editing (SpecSession) *)

LastOf(s) == s[Len(s)]

\* What addSet(exId) has to do to an active session.
AddSetStep(exId) ==
    (AddSet(exId) /\ currentSession /= Null) =>
        LET old == currentSession[1].sets
            new == currentSession'[1].sets
            prior == FilterEx(old, exId)
        IN  /\ Len(new) = Len(old) + 1
            /\ SubSeq(new, 1, Len(old)) = old
            /\ LastOf(new).ex = exId
            /\ LastOf(new).reps = Null /\ LastOf(new).rpe = Null /\ LastOf(new).done = FALSE
            /\ LastOf(new).set = Len(prior) + 1
            /\ IF prior /= <<>>
               THEN /\ LastOf(new).plannedReps = LastOf(prior).plannedReps
                    /\ LastOf(new).load = LastOf(prior).load
                    /\ LastOf(new).restSec = LastOf(prior).restSec
               ELSE /\ LastOf(new).plannedReps = Null
                    /\ LastOf(new).load = Null
                    /\ LastOf(new).restSec = Num(DefaultRest)

\* C6, as stated: addSet appends one set with reps and rpe absent, done false and the
\* next set number; plannedReps, load and restSec take the current values of the last
\* set of the same exercise (absent where absent there), or absent, absent and 60
\* when the exercise has no set yet.
C6_AddSetInheritsFromLast == [][\A e \in {sq, bp} : AddSetStep(e)]_vars

\* The number a numeric text stands for, as the field's type has it.
Coerced(field, text) == IF field \in IntFields THEN ParseInt(text) ELSE ParseFloat(text)

\* What updateSetField has to do to the set it is applied to.
UpdateStep(i, field, text) ==
    (UpdateSetField(i, field, text) /\ currentSession /= Null) =>
        LET old == currentSession[1].sets
            new == currentSession'[1].sets
        IN  /\ ~raised'
            /\ new[i][field] = (IF text.num THEN Coerced(field, text) ELSE Null)
            /\ new[i][field] = Null <=> ~text.num
            /\ \A f \in DOMAIN old[i] \ {field} : new[i][f] = old[i][f]
            /\ \A j \in 1..Len(old) : j /= i => new[j] = old[j]
            /\ Len(new) = Len(old)

\* C7, as stated: updateSetField stores the coerced number whenever the input is
\* numeric, 0 included, clears the field exactly when the input is non-numeric,
\* never raises, and changes no other field and no other set.
C7_UpdateStoresEveryNumber ==
    [][\A i \in 1..MaxSets, f \in Fields, t \in Texts : UpdateStep(i, f, t)]_vars

\* The field constraints of a set: load absent or >= 0, rpe absent or within [0,10]
\* (0..20 in halves), restSec absent or >= 0. reps, plannedReps and restSec hold what
\* parseInt returned, an integer or absent.
WithinFieldConstraints(s) ==
    /\ s.load = Null \/ (IsNum(s.load) /\ s.load[1] >= 0)
    /\ s.rpe = Null \/ (IsNum(s.rpe) /\ s.rpe[1] >= 0 /\ s.rpe[1] <= 20)
    /\ s.restSec = Null \/ (IsNum(s.restSec) /\ s.restSec[1] >= 0)
    /\ s.reps = Null \/ IsNum(s.reps)
    /\ s.plannedReps = Null \/ IsNum(s.plannedReps)

\* C12, as stated: whatever the user types, every set of the active session keeps
\* load absent or >= 0, rpe absent or within [0,10], restSec absent or a non-negative
\* integer, and reps and plannedReps absent or integers.
C12_FieldConstraintsHold ==
    currentSession /= Null =>
        \A i \in 1..Len(currentSession[1].sets) :
            WithinFieldConstraints(currentSession[1].sets[i])

----------------------------------------------------------------------------
(* Sessions started, filled and finished, one after the other *)

\* The application after init on a first run, on the dashboard.
InitWorkouts ==
    /\ pc = "run"
    /\ data = RootOf(<<EmptyProfile>>)
    /\ store = Missing
    /\ currentSession = Null
    /\ orphan = Null
    /\ view = "home"
    /\ timers = 0
    /\ now = 0
    /\ nextOid = 1
    /\ cancelled = {}
    /\ raised = FALSE
    /\ alertMsg = "none"
    /\ edits = 0
    /\ shown = HomeShown(data)

NextWorkouts ==
    \/ StartNewSession
    \/ \E n \in ExNames : AddExercise(n)
    \/ \E e \in {sq, bp} : AddSet(e)
    \/ FinishSession
    \/ Tick

SpecWorkouts == InitWorkouts /\ [][NextWorkouts]_vars

----------------------------------------------------------------------------
(* Properties of the workouts sessions leave behind (SpecWorkouts) *)

\* The set numbers of every exercise of `sets`, read in sequence order, are 1, 2, ..., k.
Contiguous(sets) ==
    \A e \in {sets[i].ex : i \in 1..Len(sets)} :
        LET exSets == FilterEx(sets, e)
        IN  \A j \in 1..Len(exSets) : exSets[j].set = j

\* The workouts finish committed in this run: those that were a session object
\* (documents read from a file or from the store carry the oid 0).
CommittedByFinish ==
    IF pc = "run" /\ CanReadWorkouts(data)
    THEN {Workouts(data)[i].v : i \in 1..Len(Workouts(data))} \ {w \in {Workouts(data)[i].v : i \in 1..Len(Workouts(data))} : w.oid = 0}
    ELSE {}

----------------------------------------------------------------------------
(* A rest timer pending *)

\* A session whose first set was marked done: startRestTimer has scheduled its callback.
DoneSet == [NewSet(<<>>, sq) EXCEPT !.done = TRUE]

\* The application after New Session, Add Exercise ("SQ") and a click on the done box
\* of the set, on a first run.
InitTimer ==
    /\ pc = "run"
    /\ data = Register(RootOf(<<EmptyProfile>>), sq, <<"S", "Q">>)
    /\ store = SaveData(data)
    /\ currentSession = <<[NewSession(1, ToISOString(0)) EXCEPT !.sets = <<DoneSet>>]>>
    /\ orphan = Null
    /\ view = "session"
    /\ timers = Scheduled(DoneSet)
    /\ now = 0
    /\ nextOid = 2
    /\ cancelled = {}
    /\ raised = FALSE
    /\ alertMsg = "none"
    /\ edits = 0
    /\ shown = NothingShown

NextTimer ==
    \/ RestTimerFires
    \/ \E i \in 1..MaxSets, f \in {"restSec", "load"}, t \in {NonNumeric, Numeral(FALSE, 2, TRUE)} :
            UpdateSetField(i, f, t)
    \/ \E i \in 1..MaxSets : MarkDone(i)
    \/ AddSet(sq)
    \/ FinishSession
    \/ Cancel
    \/ StartNewSession
    \/ NavSettings
    \/ \E file \in ImportFiles : Import(file)

SpecTimer == InitTimer /\ [][NextTimer]_vars

----------------------------------------------------------------------------
(* Properties of the rest timer (SpecTimer) *)

\* C13: the callback of the rest timer changes neither the active session, nor the
\* profile's exercises and workouts, nor the stored document, whenever it fires:
\* after later edits, addSet, finish, cancel, start or import as well.
C13_TimerCallbackChangesNothing ==
    [][RestTimerFires =>
          /\ currentSession' = currentSession
          /\ orphan' = orphan
          /\ data' = data
          /\ store' = store]_vars

\* The callback has just fired on a session whose rest was edited after the set was
\* marked done, and which has been finished since.
C13_Witness ==
    /\ alertMsg = "rest"
    /\ timers = 0
    /\ currentSession = Null
    /\ \E w \in CommittedByFinish :
          w.oid = 1 /\ w.sets[1].done /\ w.sets[1].restSec /= Num(DefaultRest)

\* What the finish of an active session has to do to the workouts mapping.
FinishAddsOne ==
    (FinishSession /\ currentSession /= Null) =>
        /\ CanReadWorkouts(data')
        /\ Len(Workouts(data')) = Len(Workouts(data)) + 1
        /\ \A i \in 1..Len(Workouts(data)) :
              /\ HasKey(Workouts(data'), Workouts(data)[i].k)
              /\ Get(Workouts(data'), Workouts(data)[i].k) = Workouts(data)[i].v

\* C14, as stated: every finish of an active session adds exactly one entry to the
\* workouts mapping and leaves the workouts committed before unchanged, also when two
\* sessions were started at the same clock reading.
C14_FinishAddsOneWorkout == [][FinishAddsOne]_vars

----------------------------------------------------------------------------
(* Properties of persistence (Spec) *)

\* JSON.parse of the stored text; nothing when there is no text or it does not parse.
Deserialized == IF store.k = "json" THEN store.v ELSE Null

\* Whenever a handler changes the root in memory, the stored document afterwards
\* deserializes to that root (object identity apart).
SavedWithEveryChange ==
    (pc = "run" /\ data' /= data) => (store'.k = "json" /\ Deserialized' = PlainRoot(data'))

\* The operations on the active session alone do not write the store.
SessionOnlyStep ==
    (\/ StartNewSession
     \/ \E e \in {sq, bp} : AddSet(e)
     \/ \E i \in 1..MaxSets, f \in Fields, t \in Texts : UpdateSetField(i, f, t)
     \/ \E u \in Units : UnitChange(u)
     \/ \E i \in 1..MaxSets : MarkDone(i)
     \/ Cancel) => store' = store

\* The workouts of the stored document that have no endedAt.
StoredUnended ==
    {StoredWorkouts[i] : i \in 1..Len(StoredWorkouts)}
        \ {e \in {StoredWorkouts[i] : i \in 1..Len(StoredWorkouts)} : e.v.endedAt /= Null}

\* The workouts of the documents offered for import.
ImportedWorkouts ==
    UNION {{Workouts(RootOf(file.v))[i] : i \in 1..Len(Workouts(RootOf(file.v)))} :
              file \in {f \in ImportFiles : f.k = "json" /\ IsWellFormed(f.v)}}

\* C15, as stated: after every operation that changes the exercises or workouts in
\* memory the stored document deserializes to the root in memory, the operations on
\* the active session alone leave the stored document unchanged, and the stored
\* document never holds a workout without endedAt.
C15_StoreNeverHoldsUnended ==
    [][SavedWithEveryChange]_vars /\ [][SessionOnlyStep]_vars /\ [](StoredUnended = {})

\* C15, amended: as above, except that a workout without endedAt is in the stored
\* document only as an imported document had it; no session reaches the store before
\* finish stamped it.
C15_StoreInStep ==
    [][SavedWithEveryChange]_vars /\ [][SessionOnlyStep]_vars
        /\ [](StoredUnended \subseteq ImportedWorkouts)

\* A workout without endedAt was imported, a session was finished on top of it and
\* stored, and the next session is active with a set of an exercise registered for it.
C15_Witness ==
    /\ pc = "run"
    /\ StoredUnended /= {}
    /\ CommittedByFinish /= {}
    /\ Deserialized = PlainRoot(data)
    /\ currentSession /= Null
    /\ Len(currentSession[1].sets) > 0
    /\ HasKey(Exercises(data), bp)

====
